---- MODULE Spec2Model ----
(***************************************************************************)
(* Speak-Turbo: the streaming audio delivery subsystem.                    *)
(*                                                                         *)
(* Two programs are modelled: the HTTP daemon (speakturbo/daemon.py), whose*)
(* sync handlers run one thread per request, and the raw TCP server        *)
(* (speakturbo/raw_server.py), whose accept loop serves one connection at  *)
(* a time.  The synthesis engine (pocket_tts.TTSModel) is an external      *)
(* collaborator: each of its calls either returns or raises, and its lazy  *)
(* frame sequence decides at every pull whether to yield, end or raise.    *)
(*                                                                         *)
(* Data conventions.                                                       *)
(*   - A Python str is a sequence of one-character strings; a literal of   *)
(*     the source may stand as one multi-character piece of a sequence, and*)
(*     a character a TLA+ string cannot hold stands as its Python escape   *)
(*     ("\\x0b" is the vertical tab, "\\u3000" the ideographic space).     *)
(*   - A Python bytes value is a sequence of integers 0..255.              *)
(*   - A float sample is written in halves: the integer n stands for n/2,  *)
(*     so 3 is 1.5 (out of range) and -1 is -0.5.                          *)
(*   - A block handed to a connection is recorded by the expression that   *)
(*     produced it and that expression's arguments; BlockBytes gives its   *)
(*     bytes.                                                              *)
(***************************************************************************)
EXTENDS Integers, Sequences, FiniteSets, TLC

VARIABLES
    program,        \* which entry point runs: "daemon" or "raw_server"
    engine_rate,    \* the sample rate of the installed engine (model.sample_rate)
    empty_is_missing, \* daemon: the installed FastAPI reads an empty form field as absent
    phase,          \* daemon: "run_server" (warm-up) | "serving" | "exited"
    _model,         \* daemon.py global _model: None or an engine reference
    _voice_states,  \* daemon.py global _voice_states: voice -> state
    loads,          \* instrumentation: TTSModel.load_model() calls so far
    writes,         \* instrumentation: assignments to _model so far
    calls,          \* instrumentation: voice -> get_state_for_audio_prompt calls
    computed,       \* instrumentation: voice -> computations that returned a state
    pc,             \* daemon: request thread -> position in its handler
    req,            \* daemon: request thread -> [endpoint, text, voice]
    ret,            \* daemon: request thread -> caller of the running get_model()
    loaded,         \* daemon: request thread -> engine its running load_model() returns
    computing,      \* daemon: request thread -> number of its running computation
    model,          \* daemon: request thread -> local `model` of the handler
    pulled,         \* daemon: request thread -> frames pulled from the engine
    out,            \* daemon: request thread -> blocks handed to the connection
    resp,           \* daemon: request thread -> [status, detail]
    nreq,           \* daemon: requests received so far
    r_pc,           \* raw_server: position of the main thread
    r_model,        \* raw_server: local `model` of main()
    voice_states,   \* raw_server: local `voice_states` of main()
    conn,           \* raw_server: the accepted connection [state, data, out, stream]
    r_req,          \* raw_server: parsed [voice, text] of the connection
    r_pulled,       \* raw_server: frames pulled from the engine for the connection
    nconn           \* raw_server: connections accepted so far

vars == <<program, engine_rate, empty_is_missing, phase, _model, _voice_states, loads, writes, calls, computed,
          pc, req, ret, loaded, computing, model, pulled, out, resp, nreq,
          r_pc, r_model, voice_states, conn, r_req, r_pulled, nconn>>

daemonVars == <<phase, _model, _voice_states, pc, req, ret, loaded, computing,
                model, pulled, out, resp, nreq>>
rawVars == <<r_pc, r_model, voice_states, conn, r_req, r_pulled, nconn>>

-----------------------------------------------------------------------------
(* Bounds of the model *)

NReq == 2
MaxRequests == 2
MaxFrames == 2
MaxConns == 2

Threads == 1..NReq

-----------------------------------------------------------------------------
(* Strings *)

alba == <<"a", "l", "b", "a">>
marius == <<"m", "a", "r", "i", "u", "s">>
javert == <<"j", "a", "v", "e", "r", "t">>
jean == <<"j", "e", "a", "n">>
fantine == <<"f", "a", "n", "t", "i", "n", "e">>
cosette == <<"c", "o", "s", "e", "t", "t", "e">>
eponine == <<"e", "p", "o", "n", "i", "n", "e">>
azelma == <<"a", "z", "e", "l", "m", "a">>
nonexistent == <<"n", "o", "n", "e", "x", "i", "s", "t", "e", "n", "t">>

VOICES == <<alba, marius, javert, jean, fantine, cosette, eponine, azelma>>

InList(x, list) == \E i \in 1..Len(list) : list[i] = x

\* str.strip() with no argument removes leading and trailing whitespace: the
\* 29 characters for which str.isspace() holds.
Whitespace ==
    {"\t", "\n", "\\x0b", "\f", "\r", "\\x1c", "\\x1d", "\\x1e", "\\x1f", " ",
     "\\x85", "\\xa0", "\\u1680", "\\u2000", "\\u2001", "\\u2002", "\\u2003",
     "\\u2004", "\\u2005", "\\u2006", "\\u2007", "\\u2008", "\\u2009", "\\u200a",
     "\\u2028", "\\u2029", "\\u202f", "\\u205f", "\\u3000"}

RECURSIVE lstrip(_)
lstrip(s) ==
    IF s # <<>> /\ Head(s) \in Whitespace THEN lstrip(Tail(s)) ELSE s

RECURSIVE rstrip(_)
rstrip(s) ==
    IF s # <<>> /\ s[Len(s)] \in Whitespace
    THEN rstrip(SubSeq(s, 1, Len(s) - 1))
    ELSE s

strip(s) == rstrip(lstrip(s))

\* str.split(sep): the pieces between the separators; never an empty list.
RECURSIVE split(_, _)
split(s, sep) ==
    IF \E i \in 1..Len(s) : s[i] = sep
    THEN LET i == CHOOSE k \in 1..Len(s) :
                      s[k] = sep /\ \A j \in 1..(k - 1) : s[j] # sep
         IN  <<SubSeq(s, 1, i - 1)>> \o split(SubSeq(s, i + 1, Len(s)), sep)
    ELSE <<s>>

\* repr() of a list of str, as the f-string of the error detail renders it.
RECURSIVE list_repr_items(_)
list_repr_items(list) ==
    IF list = <<>> THEN <<>>
    ELSE <<"'">> \o Head(list) \o <<"'">>
         \o (IF Len(list) > 1 THEN <<", ">> ELSE <<>>)
         \o list_repr_items(Tail(list))

list_repr(list) == <<"[">> \o list_repr_items(list) \o <<"]">>

Contains(s, sub) ==
    \E i \in 0..(Len(s) - Len(sub)) : SubSeq(s, i + 1, i + Len(sub)) = sub

-----------------------------------------------------------------------------
(* Audio Container Encoder *)

\* Python integers are unbounded, and 0x7FFFFFFF + 36 exceeds 31 bits: a Wide
\* number holds an integer 0 <= n < 2^32 as two 16-bit halves.
Wide(n) == [hi |-> n \div 65536, lo |-> n % 65536]

WideAdd(x, y) ==
    [hi |-> x.hi + y.hi + ((x.lo + y.lo) \div 65536), lo |-> (x.lo + y.lo) % 65536]

\* struct.pack little-endian fields: 'H' (2 bytes) and 'I' (4 bytes).
pack_H(n) == <<n % 256, (n \div 256) % 256>>

pack_I(w) == pack_H(w.lo) \o pack_H(w.hi)

unpack_H(b) == b[1] + 256 * b[2]

unpack_I(b) == [hi |-> unpack_H(SubSeq(b, 3, 4)), lo |-> unpack_H(SubSeq(b, 1, 2))]

tag_RIFF == <<82, 73, 70, 70>>
tag_WAVE == <<87, 65, 86, 69>>
tag_fmt == <<102, 109, 116, 32>>
tag_data == <<100, 97, 116, 97>>

STREAMING_DATA_SIZE == 2147483647

\* struct.pack('<4sI4s4sIHHIIHH4sI', ...): the 44-byte header layout.
wav_header_pack(file_size, num_channels, sample_rate, byte_rate, block_align, bits_per_sample, data_size) ==
    tag_RIFF \o pack_I(file_size) \o tag_WAVE \o tag_fmt \o pack_I(Wide(16))
    \o pack_H(1) \o pack_H(num_channels) \o pack_I(Wide(sample_rate))
    \o pack_I(Wide(byte_rate)) \o pack_H(block_align) \o pack_H(bits_per_sample)
    \o tag_data \o pack_I(data_size)

\* Mutant: the header declares the largest unsigned size, 0xFFFFFFFF.
make_wav_header_Unsigned(sample_rate, num_channels, bits_per_sample) ==
    LET byte_rate == (sample_rate * num_channels * bits_per_sample) \div 8
        block_align == (num_channels * bits_per_sample) \div 8
        data_size == [hi |-> 65535, lo |-> 65535]
        file_size == data_size
    IN  wav_header_pack(file_size, num_channels, sample_rate, byte_rate,
                        block_align, bits_per_sample, data_size)

\* daemon.make_wav_header(sample_rate, num_channels=1, bits_per_sample=16)
make_wav_header(sample_rate, num_channels, bits_per_sample) ==
    LET byte_rate == (sample_rate * num_channels * bits_per_sample) \div 8
        block_align == (num_channels * bits_per_sample) \div 8
        data_size == Wide(STREAMING_DATA_SIZE)
        file_size == WideAdd(data_size, Wide(36))
    IN  wav_header_pack(file_size, num_channels, sample_rate, byte_rate,
                        block_align, bits_per_sample, data_size)

\* Mutant: the raw server's header declares the byte rate of 8-bit samples.
raw_make_wav_header_ByteRate8(sample_rate) ==
    LET byte_rate == sample_rate
        data_size == Wide(STREAMING_DATA_SIZE)
        file_size == WideAdd(data_size, Wide(36))
    IN  wav_header_pack(file_size, 1, sample_rate, byte_rate, 2, 16, data_size)

\* raw_server.make_wav_header(sample_rate)
raw_make_wav_header(sample_rate) ==
    LET byte_rate == sample_rate * 2
        data_size == Wide(STREAMING_DATA_SIZE)
        file_size == WideAdd(data_size, Wide(36))
    IN  wav_header_pack(file_size, 1, sample_rate, byte_rate, 2, 16, data_size)

\* One sample: clamp(-1, 1) * 32767, then .short() (truncation toward zero).
\* The sample n stands for n/2.
sample_int16(n) ==
    LET c == IF n < -2 THEN -2 ELSE IF n > 2 THEN 2 ELSE n
        v == c * 32767
    IN  IF v >= 0 THEN v \div 2 ELSE -((-v) \div 2)

\* numpy int16 .tobytes(): two's complement, little-endian.
int16_bytes(v) == pack_H(v % 65536)

RECURSIVE pcm_from_chunk(_)
pcm_from_chunk(chunk) ==
    IF chunk = <<>> THEN <<>>
    ELSE int16_bytes(sample_int16(Head(chunk))) \o pcm_from_chunk(Tail(chunk))

\* int(sample_rate * 0.2): the product is truncated, not rounded.
silence_samples(sample_rate) == (sample_rate * 2) \div 10

\* bytes(silence_samples * 2): that many zero bytes.
silence_nbytes(sample_rate) == silence_samples(sample_rate) * 2

\* raw_server: (chunk.clamp(-1, 1) * 32767).short().numpy().tobytes()
RECURSIVE raw_pcm(_)
raw_pcm(chunk) ==
    IF chunk = <<>> THEN <<>>
    ELSE int16_bytes(sample_int16(Head(chunk))) \o raw_pcm(Tail(chunk))

\* raw_server: bytes(int(model.sample_rate * 0.2) * 2)
raw_silence_nbytes(sample_rate) == ((sample_rate * 2) \div 10) * 2

\* torch.cat(audio_chunks)
RECURSIVE torch_cat(_)
torch_cat(chunks) ==
    IF chunks = <<>> THEN <<>> ELSE Head(chunks) \o torch_cat(Tail(chunks))

\* daemon, buffered: (audio.clamp(-1, 1) * 32767).short().numpy() and .tobytes()
RECURSIVE buffered_pcm(_)
buffered_pcm(audio) ==
    IF audio = <<>> THEN <<>>
    ELSE int16_bytes(sample_int16(Head(audio))) \o buffered_pcm(Tail(audio))

\* wave.open(buffer, 'wb') with 1 channel, sample width 2, the given frame
\* rate, and writeframes(payload): the header is patched with the exact sizes
\* on close.
wave_write(sample_rate, payload) ==
    wav_header_pack(Wide(36 + Len(payload)), 1, sample_rate, sample_rate * 1 * 2,
                    1 * 2, 2 * 8, Wide(Len(payload)))
    \o payload

\* The bytes of a block handed to a connection.
BlockBytes(b) ==
    CASE b.src = "make_wav_header" -> make_wav_header(b.sample_rate, 1, 16)
      [] b.src = "raw_make_wav_header" -> raw_make_wav_header(b.sample_rate)
      [] b.src = "pcm_from_chunk" -> pcm_from_chunk(b.chunk)
      [] b.src = "raw_pcm" -> raw_pcm(b.chunk)
      [] b.src = "bytes" -> [i \in 1..b.nbytes |-> 0]
      [] b.src = "wave" -> wave_write(b.sample_rate, buffered_pcm(b.audio))

-----------------------------------------------------------------------------
(* The synthesis engine, an external collaborator *)

SAMPLE_RATE == 24000

\* The rates an engine may report: the one of the shipped model, and one that
\* is not a multiple of 5 (its fifth has a fraction above one half).
SampleRates == {SAMPLE_RATE, 44099}

\* Python's None where an engine reference is expected.
None == [id |-> 0, sample_rate |-> 0]

\* TTSModel.load_model(): the n-th load of the process returns engine n.
Engine(n) == [id |-> n, sample_rate |-> engine_rate]

\* model.get_state_for_audio_prompt(voice): the n-th computation for a voice.
VoiceState(voice, n) == [voice |-> voice, gen |-> n]

\* The frames model.generate_audio_stream(...) may yield.
Frames == {<<1, 3>>, <<-3, -1>>}

Count(f, k) == IF k \in DOMAIN f THEN f[k] ELSE 0

Put(f, k, v) == [x \in DOMAIN f \cup {k} |-> IF x = k THEN v ELSE f[x]]

-----------------------------------------------------------------------------
(* Inputs *)

Endpoints == {"/tts", "/tts/buffered"}
Texts == {<<>>, <<" ", "\f">>, <<"\\xa0", "h", "i", "\n">>}
VoiceInputs == {alba, marius, nonexistent}

NoReq == [endpoint |-> "", text |-> <<>>, voice |-> <<>>]
NoResp == [status |-> 0, detail |-> <<>>, stream |-> "none"]

\* What a raw-socket client may have sent when the server reads.
RawDatas ==
    { <<>>,
      <<"\f", "\n">>,
      <<"\\u3000">> \o alba,
      marius \o <<"\n", "H", "i", "\n">>,
      nonexistent \o <<"\n", "H", "i">> }

NoConn == [state |-> "none", data |-> <<>>, out |-> <<>>, stream |-> "none"]
NoRawReq == [voice |-> <<>>, text |-> <<>>]

-----------------------------------------------------------------------------
(* Initial state: one of the two programs has just been started.  The      *)
(* daemon either runs run_server() (warm-up, then serve) or its `app` is   *)
(* served directly by an ASGI server or a test client (no warm-up).        *)

Init ==
    /\ program \in {"daemon", "raw_server"}
    /\ engine_rate \in SampleRates
    /\ empty_is_missing \in (IF program = "daemon" THEN BOOLEAN ELSE {FALSE})
    /\ phase \in (IF program = "daemon" THEN {"run_server", "serving"} ELSE {"none"})
    /\ _model = None
    /\ _voice_states = <<>>
    /\ loads = 0
    /\ writes = 0
    /\ calls = <<>>
    /\ computed = <<>>
    /\ pc = [t \in Threads |-> "idle"]
    /\ req = [t \in Threads |-> NoReq]
    /\ ret = [t \in Threads |-> ""]
    /\ loaded = [t \in Threads |-> None]
    /\ computing = [t \in Threads |-> 0]
    /\ model = [t \in Threads |-> None]
    /\ pulled = [t \in Threads |-> <<>>]
    /\ out = [t \in Threads |-> <<>>]
    /\ resp = [t \in Threads |-> NoResp]
    /\ nreq = 0
    /\ r_pc = IF program = "raw_server" THEN "load" ELSE "none"
    /\ r_model = None
    /\ voice_states = <<>>
    /\ conn = NoConn
    /\ r_req = NoRawReq
    /\ r_pulled = <<>>
    /\ nconn = 0

-----------------------------------------------------------------------------
(* daemon.py: run_server() warm-up, on the main thread before serving *)

\* run_server line 232: get_model() with _model still None.
RunServerGetModel ==
    /\ program = "daemon" /\ phase = "run_server" /\ _model = None
    /\ loads' = loads + 1
    /\ \/ /\ _model' = Engine(loads + 1)
          /\ writes' = writes + 1
          /\ phase' = phase
       \/ /\ phase' = "exited"        \* load_model() raised: the process ends
          /\ UNCHANGED <<_model, writes>>
    /\ UNCHANGED <<program, engine_rate, empty_is_missing, loaded, computing, _voice_states, calls, computed, pc, req, ret, model,
                   pulled, out, resp, nreq>>
    /\ UNCHANGED rawVars

\* run_server line 235: get_voice_state("alba"), then uvicorn.run.
RunServerWarm ==
    /\ program = "daemon" /\ phase = "run_server" /\ _model # None
    /\ IF alba \in DOMAIN _voice_states
       THEN /\ phase' = "serving"
            /\ UNCHANGED <<calls, _voice_states, computed>>
       ELSE /\ calls' = Put(calls, alba, Count(calls, alba) + 1)
            /\ \/ /\ _voice_states' =
                       Put(_voice_states, alba, VoiceState(alba, Count(calls, alba) + 1))
                  /\ computed' = Put(computed, alba, Count(computed, alba) + 1)
                  /\ phase' = "serving"
               \/ /\ phase' = "exited"   \* the computation raised
                  /\ UNCHANGED <<_voice_states, computed>>
    /\ UNCHANGED <<program, engine_rate, empty_is_missing, loaded, computing, _model, loads, writes, pc, req, ret, model,
                   pulled, out, resp, nreq>>
    /\ UNCHANGED rawVars

-----------------------------------------------------------------------------
(* daemon.py: request handling, one thread per request *)

\* text: str = Form(...): what the framework answers before the handler is
\* entered, NoResp when it enters it.  Whether an empty value of the required
\* field counts as absent depends on the installed FastAPI: where it does
\* (the repository's test_empty_text_returns_422) the request is answered 422
\* and the handler is not entered; where it does not, the handler receives ''
\* and its own check (line 144) answers.
form_required(text) ==
    IF text = <<>> /\ empty_is_missing
    THEN [status |-> 422, detail |-> <<>>, stream |-> "none"]
    ELSE NoResp

\* Mutant: only `not text` is tested, the stripped text is not.
validate_NoStrip(text, voice) ==
    IF text = <<>>
    THEN [status |-> 400, detail |-> <<"Text cannot be empty">>, stream |-> "none"]
    ELSE IF ~InList(voice, VOICES)
    THEN [status |-> 400,
          detail |-> <<"Invalid voice '">> \o voice \o <<"'. Available: ">>
                     \o list_repr(VOICES),
          stream |-> "none"]
    ELSE NoResp

\* Mutant: /tts does not validate the voice.
validate_AnyVoice(text, voice) ==
    IF text = <<>> \/ strip(text) = <<>>
    THEN [status |-> 400, detail |-> <<"Text cannot be empty">>, stream |-> "none"]
    ELSE NoResp

\* text_to_speech lines 143-152.
validate(text, voice) ==
    IF text = <<>> \/ strip(text) = <<>>
    THEN [status |-> 400, detail |-> <<"Text cannot be empty">>, stream |-> "none"]
    ELSE IF ~InList(voice, VOICES)
    THEN [status |-> 400,
          detail |-> <<"Invalid voice '">> \o voice \o <<"'. Available: ">>
                     \o list_repr(VOICES),
          stream |-> "none"]
    ELSE NoResp

\* Mutant: the voice is not validated.
validate_buffered_AnyVoice(text, voice) ==
    IF text = <<>> \/ strip(text) = <<>>
    THEN [status |-> 400, detail |-> <<"Text cannot be empty">>, stream |-> "none"]
    ELSE NoResp

\* text_to_speech_buffered lines 188-195.
validate_buffered(text, voice) ==
    IF text = <<>> \/ strip(text) = <<>>
    THEN [status |-> 400, detail |-> <<"Text cannot be empty">>, stream |-> "none"]
    ELSE IF ~InList(voice, VOICES)
    THEN [status |-> 400,
          detail |-> <<"Invalid voice '">> \o voice \o <<"'. Available: ">>
                     \o list_repr(VOICES),
          stream |-> "none"]
    ELSE NoResp

\* What a request is answered with before any engine use; NoResp when it
\* passes every check.
Screen(r) ==
    IF form_required(r.text) # NoResp THEN form_required(r.text)
    ELSE IF r.endpoint = "/tts" THEN validate(r.text, r.voice)
    ELSE validate_buffered(r.text, r.voice)

ServerError == [status |-> 500, detail |-> <<"Internal Server Error">>, stream |-> "none"]

\* A request arrives on an idle thread and is validated.
Receive(t) ==
    /\ program = "daemon" /\ phase = "serving"
    /\ pc[t] = "idle" /\ nreq < MaxRequests
    /\ \E e \in Endpoints, text \in Texts, voice \in VoiceInputs :
         LET r == [endpoint |-> e, text |-> text, voice |-> voice]
         IN  /\ req' = [req EXCEPT ![t] = r]
             /\ resp' = [resp EXCEPT ![t] = Screen(r)]
             /\ pc' = [pc EXCEPT ![t] = IF Screen(r) = NoResp THEN "gm_check" ELSE "done"]
    /\ ret' = [ret EXCEPT ![t] = "handler"]
    /\ nreq' = nreq + 1
    /\ UNCHANGED <<program, engine_rate, empty_is_missing, loaded, computing, phase, _model, _voice_states, loads, writes, calls,
                   computed, model, pulled, out>>
    /\ UNCHANGED rawVars

\* Where get_model() returns to: the handler (lines 155, 197) continues with
\* get_voice_state; get_voice_state (line 46) continues with the computation.
AfterGetModel(t) == IF ret[t] = "handler" THEN "gvs_check" ELSE "gvs_compute"

\* get_model line 35: `if _model is None`.
GetModelCheck(t) ==
    /\ program = "daemon" /\ pc[t] = "gm_check"
    /\ pc' = [pc EXCEPT ![t] = IF _model = None THEN "gm_load" ELSE "gm_return"]
    /\ UNCHANGED <<program, engine_rate, empty_is_missing, loaded, computing, phase, _model, _voice_states,
                   loads, writes, calls, computed, req, ret, model, pulled, out, resp, nreq>>
    /\ UNCHANGED rawVars

\* get_model line 37, right-hand side: TTSModel.load_model() is entered; it
\* runs for the whole load, during which other threads run.
GetModelLoad(t) ==
    /\ program = "daemon" /\ pc[t] = "gm_load"
    /\ loads' = loads + 1
    /\ loaded' = [loaded EXCEPT ![t] = Engine(loads + 1)]
    /\ pc' = [pc EXCEPT ![t] = "gm_store"]
    /\ UNCHANGED <<program, engine_rate, empty_is_missing, computing, phase, _model, _voice_states, writes,
                   calls, computed, req, ret, model, pulled, out, resp, nreq>>
    /\ UNCHANGED rawVars

\* get_model line 37, the assignment: load_model() returns and its engine is
\* stored in the global, or load_model() raises and nothing is stored.
GetModelStore(t) ==
    /\ program = "daemon" /\ pc[t] = "gm_store"
    /\ \/ /\ _model' = loaded[t]
          /\ writes' = writes + 1
          /\ pc' = [pc EXCEPT ![t] = "gm_return"]
          /\ resp' = resp
       \/ /\ pc' = [pc EXCEPT ![t] = "done"]       \* load_model() raised
          /\ resp' = [resp EXCEPT ![t] = ServerError]
          /\ UNCHANGED <<_model, writes>>
    /\ loaded' = [loaded EXCEPT ![t] = None]
    /\ UNCHANGED <<program, engine_rate, empty_is_missing, computing, phase, _voice_states, loads, calls,
                   computed, req, ret, model, pulled, out, nreq>>
    /\ UNCHANGED rawVars

\* get_model line 39: `return _model` reads the global again.
GetModelReturn(t) ==
    /\ program = "daemon" /\ pc[t] = "gm_return"
    /\ pc' = [pc EXCEPT ![t] = AfterGetModel(t)]
    /\ model' = IF ret[t] = "handler" THEN [model EXCEPT ![t] = _model] ELSE model
    /\ UNCHANGED <<program, engine_rate, empty_is_missing, loaded, computing, phase, _model, _voice_states,
                   loads, writes, calls, computed, req, ret, pulled, out, resp, nreq>>
    /\ UNCHANGED rawVars

\* Mutant: get_voice_state without the membership test (always a miss).
GetVoiceStateCheck_NoCache(t) ==
    /\ program = "daemon" /\ pc[t] = "gvs_check"
    /\ pc' = [pc EXCEPT ![t] = "gm_check"]
    /\ ret' = [ret EXCEPT ![t] = "get_voice_state"]
    /\ UNCHANGED <<program, engine_rate, empty_is_missing, loaded, computing, phase, _model, _voice_states, loads, writes, calls,
                   computed, req, model, pulled, out, resp, nreq>>
    /\ UNCHANGED rawVars

\* get_voice_state line 45: `if voice not in _voice_states`.
GetVoiceStateCheck(t) ==
    /\ program = "daemon" /\ pc[t] = "gvs_check"
    /\ IF req[t].voice \notin DOMAIN _voice_states
       THEN /\ pc' = [pc EXCEPT ![t] = "gm_check"]
            /\ ret' = [ret EXCEPT ![t] = "get_voice_state"]
       ELSE /\ pc' = [pc EXCEPT ![t] = "gvs_return"]
            /\ ret' = ret
    /\ UNCHANGED <<program, engine_rate, empty_is_missing, loaded, computing, phase, _model, _voice_states, loads, writes, calls,
                   computed, req, model, pulled, out, resp, nreq>>
    /\ UNCHANGED rawVars

\* get_voice_state lines 47-48, right-hand side: the computation is entered;
\* it runs for a long time, during which other threads run.
GetVoiceStateCompute(t) ==
    /\ program = "daemon" /\ pc[t] = "gvs_compute"
    /\ LET v == req[t].voice
           n == Count(calls, v) + 1
       IN  /\ calls' = Put(calls, v, n)
           /\ computing' = [computing EXCEPT ![t] = n]
    /\ pc' = [pc EXCEPT ![t] = "gvs_store"]
    /\ UNCHANGED <<program, engine_rate, empty_is_missing, loaded, phase, _model, _voice_states, loads,
                   writes, computed, req, ret, model, pulled, out, resp, nreq>>
    /\ UNCHANGED rawVars

\* Mutant: the store rebinds the cache to a dict holding the new entry alone.
GetVoiceStateStore_Rebind(t) ==
    /\ program = "daemon" /\ pc[t] = "gvs_store"
    /\ LET v == req[t].voice
       IN  /\ _voice_states' = Put(<<>>, v, VoiceState(v, computing[t]))
           /\ computed' = Put(computed, v, Count(computed, v) + 1)
           /\ pc' = [pc EXCEPT ![t] = "gvs_return"]
    /\ computing' = [computing EXCEPT ![t] = 0]
    /\ UNCHANGED <<program, engine_rate, empty_is_missing, loaded, phase, _model, loads, writes, calls,
                   req, ret, model, pulled, out, resp, nreq>>
    /\ UNCHANGED rawVars

\* Mutant: an entry is stored for the voice also when the computation raises.
GetVoiceStateStore_OnFailure(t) ==
    /\ program = "daemon" /\ pc[t] = "gvs_store"
    /\ LET v == req[t].voice
       IN  /\ _voice_states' = Put(_voice_states, v, VoiceState(v, computing[t]))
           /\ \/ /\ computed' = Put(computed, v, Count(computed, v) + 1)
                 /\ pc' = [pc EXCEPT ![t] = "gvs_return"]
                 /\ resp' = resp
              \/ /\ pc' = [pc EXCEPT ![t] = "done"]
                 /\ resp' = [resp EXCEPT ![t] = ServerError]
                 /\ computed' = computed
    /\ computing' = [computing EXCEPT ![t] = 0]
    /\ UNCHANGED <<program, engine_rate, empty_is_missing, loaded, phase, _model, loads, writes, calls,
                   req, ret, model, pulled, out, nreq>>
    /\ UNCHANGED rawVars

\* get_voice_state line 48, the assignment: the computation returns and its
\* state is stored under the voice, or it raises and nothing is stored.
GetVoiceStateStore(t) ==
    /\ program = "daemon" /\ pc[t] = "gvs_store"
    /\ LET v == req[t].voice
       IN  \/ /\ _voice_states' = Put(_voice_states, v, VoiceState(v, computing[t]))
              /\ computed' = Put(computed, v, Count(computed, v) + 1)
              /\ pc' = [pc EXCEPT ![t] = "gvs_return"]
              /\ resp' = resp
           \/ /\ pc' = [pc EXCEPT ![t] = "done"]   \* the computation raised
              /\ resp' = [resp EXCEPT ![t] = ServerError]
              /\ UNCHANGED <<_voice_states, computed>>
    /\ computing' = [computing EXCEPT ![t] = 0]
    /\ UNCHANGED <<program, engine_rate, empty_is_missing, loaded, phase, _model, loads, writes, calls,
                   req, ret, model, pulled, out, nreq>>
    /\ UNCHANGED rawVars

\* get_voice_state line 49 returns the entry; the handler creates the lazy
\* frame sequence (lines 159-162, 201) and, on /tts, returns the
\* StreamingResponse (lines 166-174), which starts the 200 response.
GetVoiceStateReturn(t) ==
    /\ program = "daemon" /\ pc[t] = "gvs_return"
    /\ IF req[t].endpoint = "/tts"
       THEN /\ pc' = [pc EXCEPT ![t] = "s_header"]
            /\ resp' = [resp EXCEPT ![t] =
                          [status |-> 200, detail |-> <<>>, stream |-> "streaming"]]
       ELSE /\ pc' = [pc EXCEPT ![t] = "b_drain"]
            /\ resp' = resp
    /\ UNCHANGED <<program, engine_rate, empty_is_missing, loaded, computing, phase, _model, _voice_states, loads, writes, calls,
                   computed, req, ret, model, pulled, out, nreq>>
    /\ UNCHANGED rawVars

\* Mutant: the first frame is pulled before the header is yielded.
StreamHeader_AfterFirstFrame(t) ==
    /\ program = "daemon" /\ pc[t] = "s_header"
    /\ \E f \in Frames : pulled' = [pulled EXCEPT ![t] = Append(@, f)]
    /\ out' = [out EXCEPT ![t] =
                 <<[src |-> "make_wav_header", sample_rate |-> model[t].sample_rate]>>]
    /\ pc' = [pc EXCEPT ![t] = "s_yield"]
    /\ UNCHANGED <<program, engine_rate, empty_is_missing, loaded, computing, phase, _model, _voice_states, loads, writes, calls,
                   computed, req, ret, model, resp, nreq>>
    /\ UNCHANGED rawVars

\* generate_streaming_wav line 121: the header is yielded first.
StreamHeader(t) ==
    /\ program = "daemon" /\ pc[t] = "s_header"
    /\ out' = [out EXCEPT ![t] =
                 <<[src |-> "make_wav_header", sample_rate |-> model[t].sample_rate]>>]
    /\ pc' = [pc EXCEPT ![t] = "s_pull"]
    /\ UNCHANGED <<program, engine_rate, empty_is_missing, loaded, computing, phase, _model, _voice_states, loads, writes, calls,
                   computed, req, ret, model, pulled, resp, nreq>>
    /\ UNCHANGED rawVars

\* generate_streaming_wav line 124: the next frame is pulled from the engine's
\* lazy sequence, which yields one, ends, or raises.
StreamPull(t) ==
    /\ program = "daemon" /\ pc[t] = "s_pull"
    /\ \/ /\ Len(pulled[t]) < MaxFrames
          /\ \E f \in Frames : pulled' = [pulled EXCEPT ![t] = Append(@, f)]
          /\ pc' = [pc EXCEPT ![t] = "s_yield"]
          /\ resp' = resp
       \/ /\ pc' = [pc EXCEPT ![t] = "s_silence"]
          /\ UNCHANGED <<pulled, resp>>
       \/ /\ pc' = [pc EXCEPT ![t] = "done"]
          /\ resp' = [resp EXCEPT ![t].stream = "aborted"]
          /\ pulled' = pulled
    /\ UNCHANGED <<program, engine_rate, empty_is_missing, loaded, computing, phase, _model, _voice_states, loads, writes, calls,
                   computed, req, ret, model, out, nreq>>
    /\ UNCHANGED rawVars

\* Mutant: the encoded frame is put right after the header, ahead of the
\* frames already yielded.
StreamYield_Front(t) ==
    /\ program = "daemon" /\ pc[t] = "s_yield"
    /\ out' = [out EXCEPT ![t] =
                 <<Head(@)>>
                 \o <<[src |-> "pcm_from_chunk", chunk |-> pulled[t][Len(pulled[t])]]>>
                 \o Tail(@)]
    /\ pc' = [pc EXCEPT ![t] = "s_pull"]
    /\ UNCHANGED <<program, engine_rate, empty_is_missing, loaded, computing, phase, _model, _voice_states, loads, writes, calls,
                   computed, req, ret, model, pulled, resp, nreq>>
    /\ UNCHANGED rawVars

\* generate_streaming_wav line 125: the frame just pulled is encoded and yielded.
StreamYield(t) ==
    /\ program = "daemon" /\ pc[t] = "s_yield"
    /\ out' = [out EXCEPT ![t] =
                 Append(@, [src |-> "pcm_from_chunk",
                            chunk |-> pulled[t][Len(pulled[t])]])]
    /\ pc' = [pc EXCEPT ![t] = "s_pull"]
    /\ UNCHANGED <<program, engine_rate, empty_is_missing, loaded, computing, phase, _model, _voice_states, loads, writes, calls,
                   computed, req, ret, model, pulled, resp, nreq>>
    /\ UNCHANGED rawVars

\* generate_streaming_wav lines 127-129: the trailing silence ends the stream.
StreamSilence(t) ==
    /\ program = "daemon" /\ pc[t] = "s_silence"
    /\ out' = [out EXCEPT ![t] =
                 Append(@, [src |-> "bytes",
                            nbytes |-> silence_nbytes(model[t].sample_rate)])]
    /\ resp' = [resp EXCEPT ![t].stream = "complete"]
    /\ pc' = [pc EXCEPT ![t] = "done"]
    /\ UNCHANGED <<program, engine_rate, empty_is_missing, loaded, computing, phase, _model, _voice_states, loads, writes, calls,
                   computed, req, ret, model, pulled, nreq>>
    /\ UNCHANGED rawVars

\* Mutant: the disconnect is noticed but the generator keeps being iterated.
ClientDisconnect_KeepPulling(t) ==
    /\ program = "daemon" /\ pc[t] \in {"s_header", "s_pull", "s_yield", "s_silence"}
    /\ resp[t].stream # "aborted"
    /\ resp' = [resp EXCEPT ![t].stream = "aborted"]
    /\ UNCHANGED <<program, engine_rate, empty_is_missing, loaded, computing, phase, _model, _voice_states, loads, writes, calls,
                   computed, pc, req, ret, model, pulled, out, nreq>>
    /\ UNCHANGED rawVars

\* The client goes away while the body is streamed: the server stops iterating
\* generate_streaming_wav and closes it.
ClientDisconnect(t) ==
    /\ program = "daemon" /\ pc[t] \in {"s_header", "s_pull", "s_yield", "s_silence"}
    /\ resp' = [resp EXCEPT ![t].stream = "aborted"]
    /\ pc' = [pc EXCEPT ![t] = "done"]
    /\ UNCHANGED <<program, engine_rate, empty_is_missing, loaded, computing, phase, _model, _voice_states, loads, writes, calls,
                   computed, req, ret, model, pulled, out, nreq>>
    /\ UNCHANGED rawVars

\* Mutant: the drained collection is not tested for emptiness.
BufferedDrain_NoEmptyCheck(t) ==
    /\ program = "daemon" /\ pc[t] = "b_drain"
    /\ \/ /\ Len(pulled[t]) < MaxFrames
          /\ \E f \in Frames : pulled' = [pulled EXCEPT ![t] = Append(@, f)]
          /\ UNCHANGED <<pc, resp, out>>
       \/ /\ pc' = [pc EXCEPT ![t] = "done"]
          /\ pulled' = pulled
          /\ resp' = [resp EXCEPT ![t] =
                        [status |-> 200, detail |-> <<>>, stream |-> "complete"]]
          /\ out' = [out EXCEPT ![t] =
                       <<[src |-> "wave", sample_rate |-> model[t].sample_rate,
                          audio |-> torch_cat(pulled[t])]>>]
       \/ /\ pc' = [pc EXCEPT ![t] = "done"]
          /\ resp' = [resp EXCEPT ![t] = ServerError]
          /\ UNCHANGED <<pulled, out>>
    /\ UNCHANGED <<program, engine_rate, empty_is_missing, loaded, computing, phase, _model, _voice_states, loads, writes, calls,
                   computed, req, ret, model, nreq>>
    /\ UNCHANGED rawVars

\* text_to_speech_buffered lines 201-224: list(...) drains the lazy sequence
\* frame by frame; when it ends, the collection is checked and the WAV body built.
BufferedDrain(t) ==
    /\ program = "daemon" /\ pc[t] = "b_drain"
    /\ \/ /\ Len(pulled[t]) < MaxFrames
          /\ \E f \in Frames : pulled' = [pulled EXCEPT ![t] = Append(@, f)]
          /\ UNCHANGED <<pc, resp, out>>
       \/ /\ pc' = [pc EXCEPT ![t] = "done"]
          /\ pulled' = pulled
          /\ IF pulled[t] = <<>>
             THEN /\ resp' = [resp EXCEPT ![t] =
                                [status |-> 500, detail |-> <<"No audio generated">>,
                                 stream |-> "none"]]
                  /\ out' = out
             ELSE /\ resp' = [resp EXCEPT ![t] =
                                [status |-> 200, detail |-> <<>>, stream |-> "complete"]]
                  /\ out' = [out EXCEPT ![t] =
                               <<[src |-> "wave", sample_rate |-> model[t].sample_rate,
                                  audio |-> torch_cat(pulled[t])]>>]
       \/ /\ pc' = [pc EXCEPT ![t] = "done"]       \* the engine raised
          /\ resp' = [resp EXCEPT ![t] = ServerError]
          /\ UNCHANGED <<pulled, out>>
    /\ UNCHANGED <<program, engine_rate, empty_is_missing, loaded, computing, phase, _model, _voice_states, loads, writes, calls,
                   computed, req, ret, model, nreq>>
    /\ UNCHANGED rawVars

\* The request is over; its thread returns to the pool.
Finish(t) ==
    /\ program = "daemon" /\ pc[t] = "done"
    /\ pc' = [pc EXCEPT ![t] = "idle"]
    /\ req' = [req EXCEPT ![t] = NoReq]
    /\ ret' = [ret EXCEPT ![t] = ""]
    /\ model' = [model EXCEPT ![t] = None]
    /\ pulled' = [pulled EXCEPT ![t] = <<>>]
    /\ out' = [out EXCEPT ![t] = <<>>]
    /\ resp' = [resp EXCEPT ![t] = NoResp]
    /\ UNCHANGED <<program, engine_rate, empty_is_missing, loaded, computing, phase, _model, _voice_states, loads, writes, calls,
                   computed, nreq>>
    /\ UNCHANGED rawVars

\* One step of the handler running on thread t, after the request was received.
HandlerStep(t) ==
    \/ GetModelCheck(t)
    \/ GetModelLoad(t)
    \/ GetModelStore(t)
    \/ GetModelReturn(t)
    \/ GetVoiceStateCheck(t)
    \/ GetVoiceStateCompute(t)
    \/ GetVoiceStateStore(t)
    \/ GetVoiceStateReturn(t)
    \/ StreamHeader(t)
    \/ StreamPull(t)
    \/ StreamYield(t)
    \/ StreamSilence(t)
    \/ ClientDisconnect(t)
    \/ BufferedDrain(t)
    \/ Finish(t)

DaemonNext ==
    \/ RunServerGetModel
    \/ RunServerWarm
    \/ \E t \in Threads : Receive(t) \/ HandlerStep(t)

\* A request that arrives when no other request is being handled.
ReceiveSeq(t) ==
    /\ \A u \in Threads : pc[u] = "idle"
    /\ Receive(t)

DaemonNextSeq ==
    \/ RunServerGetModel
    \/ RunServerWarm
    \/ \E t \in Threads : ReceiveSeq(t) \/ HandlerStep(t)

-----------------------------------------------------------------------------
(* raw_server.py: main() and handle_client(), one thread *)

\* handle_client lines 37-40: decode, strip, split into lines, take the voice
\* and the text with their defaults.
parse_request(data) ==
    LET lines == split(strip(data), "\n")
    IN  [voice |-> IF Len(lines) > 0 THEN lines[1] ELSE alba,
         text |-> IF Len(lines) > 1 THEN lines[2]
                  ELSE <<"H", "e", "l", "l", "o", " ", "w", "o", "r", "l", "d">>]

\* main line 78: the engine is loaded before the socket is opened.
RawLoad ==
    /\ program = "raw_server" /\ r_pc = "load"
    /\ loads' = loads + 1
    /\ \/ /\ r_model' = Engine(loads + 1)
          /\ r_pc' = "warm"
       \/ /\ r_pc' = "exited"               \* load_model() raised
          /\ r_model' = r_model
    /\ UNCHANGED <<program, engine_rate, empty_is_missing, writes, calls, computed, voice_states, conn, r_req,
                   r_pulled, nconn>>
    /\ UNCHANGED daemonVars

\* main line 79: voice_states starts with the state of "alba".
RawWarm ==
    /\ program = "raw_server" /\ r_pc = "warm"
    /\ calls' = Put(calls, alba, Count(calls, alba) + 1)
    /\ \/ /\ voice_states' = Put(<<>>, alba, VoiceState(alba, Count(calls, alba) + 1))
          /\ computed' = Put(computed, alba, Count(computed, alba) + 1)
          /\ r_pc' = "accept"
       \/ /\ r_pc' = "exited"               \* the computation raised
          /\ UNCHANGED <<voice_states, computed>>
    /\ UNCHANGED <<program, engine_rate, empty_is_missing, loads, writes, r_model, conn, r_req, r_pulled, nconn>>
    /\ UNCHANGED daemonVars

\* main lines 88-91: accept one connection and call handle_client on it.
RawAccept ==
    /\ program = "raw_server" /\ r_pc = "accept" /\ nconn < MaxConns
    /\ conn' = [state |-> "open", data |-> <<>>, out |-> <<>>, stream |-> "none"]
    /\ r_req' = NoRawReq
    /\ r_pulled' = <<>>
    /\ nconn' = nconn + 1
    /\ r_pc' = "recv"
    /\ UNCHANGED <<program, engine_rate, empty_is_missing, loads, writes, calls, computed, r_model, voice_states>>
    /\ UNCHANGED daemonVars

\* handle_client lines 37-42: one bounded read, parsed; recv or decode may raise.
RawRecv ==
    /\ program = "raw_server" /\ r_pc = "recv"
    /\ \/ \E data \in RawDatas :
            /\ r_req' = parse_request(data)
            /\ r_pc' = "voice"
            /\ conn' = [conn EXCEPT !.data = data]
       \/ /\ r_pc' = "close"
          /\ conn' = [conn EXCEPT !.stream = "aborted"]
          /\ r_req' = r_req
    /\ UNCHANGED <<program, engine_rate, empty_is_missing, loads, writes, calls, computed, r_model, voice_states,
                   r_pulled, nconn>>
    /\ UNCHANGED daemonVars

\* handle_client lines 45-47: the voice state, computed on a miss.
RawVoiceState ==
    /\ program = "raw_server" /\ r_pc = "voice"
    /\ IF r_req.voice \notin DOMAIN voice_states
       THEN LET n == Count(calls, r_req.voice) + 1
            IN  /\ calls' = Put(calls, r_req.voice, n)
                /\ \/ /\ voice_states' =
                           Put(voice_states, r_req.voice, VoiceState(r_req.voice, n))
                      /\ computed' =
                           Put(computed, r_req.voice, Count(computed, r_req.voice) + 1)
                      /\ r_pc' = "header"
                      /\ conn' = conn
                   \/ /\ r_pc' = "close"    \* the computation raised
                      /\ conn' = [conn EXCEPT !.stream = "aborted"]
                      /\ UNCHANGED <<voice_states, computed>>
       ELSE /\ r_pc' = "header"
            /\ UNCHANGED <<calls, voice_states, conn, computed>>
    /\ UNCHANGED <<program, engine_rate, empty_is_missing, loads, writes, r_model, r_req, r_pulled, nconn>>
    /\ UNCHANGED daemonVars

\* handle_client line 50: sendall(header); it raises when the client is gone.
RawHeader ==
    /\ program = "raw_server" /\ r_pc = "header"
    /\ \/ /\ conn' = [conn EXCEPT
                        !.out = <<[src |-> "raw_make_wav_header",
                                   sample_rate |-> r_model.sample_rate]>>,
                        !.stream = "streaming"]
          /\ r_pc' = "pull"
       \/ /\ conn' = [conn EXCEPT !.stream = "aborted"]
          /\ r_pc' = "close"
    /\ UNCHANGED <<program, engine_rate, empty_is_missing, loads, writes, calls, computed, r_model, voice_states,
                   r_req, r_pulled, nconn>>
    /\ UNCHANGED daemonVars

\* handle_client line 55: the next frame is pulled from the engine's lazy
\* sequence, which yields one, ends, or raises.
RawPull ==
    /\ program = "raw_server" /\ r_pc = "pull"
    /\ \/ /\ Len(r_pulled) < MaxFrames
          /\ \E f \in Frames : r_pulled' = Append(r_pulled, f)
          /\ r_pc' = "send"
          /\ conn' = conn
       \/ /\ r_pc' = "silence"
          /\ UNCHANGED <<r_pulled, conn>>
       \/ /\ r_pc' = "close"
          /\ conn' = [conn EXCEPT !.stream = "aborted"]
          /\ r_pulled' = r_pulled
    /\ UNCHANGED <<program, engine_rate, empty_is_missing, loads, writes, calls, computed, r_model, voice_states,
                   r_req, nconn>>
    /\ UNCHANGED daemonVars

\* Mutant: the encoded frame is kept back and the next frame is pulled.
RawSend_Deferred ==
    /\ program = "raw_server" /\ r_pc = "send"
    /\ r_pc' = "pull"
    /\ UNCHANGED <<program, engine_rate, empty_is_missing, loads, writes, calls, computed, r_model, voice_states,
                   conn, r_req, r_pulled, nconn>>
    /\ UNCHANGED daemonVars

\* Mutant: a failed frame write is swallowed inside the loop, which goes on.
RawSend_Swallow ==
    /\ program = "raw_server" /\ r_pc = "send"
    /\ \/ conn' = [conn EXCEPT
                     !.out = Append(@, [src |-> "raw_pcm",
                                        chunk |-> r_pulled[Len(r_pulled)]])]
       \/ conn' = [conn EXCEPT !.stream = "aborted"]
    /\ r_pc' = "pull"
    /\ UNCHANGED <<program, engine_rate, empty_is_missing, loads, writes, calls, computed, r_model, voice_states,
                   r_req, r_pulled, nconn>>
    /\ UNCHANGED daemonVars

\* handle_client lines 57-58: the frame is encoded and sent.
RawSend ==
    /\ program = "raw_server" /\ r_pc = "send"
    /\ \/ /\ conn' = [conn EXCEPT
                        !.out = Append(@, [src |-> "raw_pcm",
                                           chunk |-> r_pulled[Len(r_pulled)]])]
          /\ r_pc' = "pull"
       \/ /\ conn' = [conn EXCEPT !.stream = "aborted"]
          /\ r_pc' = "close"
    /\ UNCHANGED <<program, engine_rate, empty_is_missing, loads, writes, calls, computed, r_model, voice_states,
                   r_req, r_pulled, nconn>>
    /\ UNCHANGED daemonVars

\* handle_client lines 65-66: the trailing silence is sent.
RawSilence ==
    /\ program = "raw_server" /\ r_pc = "silence"
    /\ \/ conn' = [conn EXCEPT
                     !.out = Append(@, [src |-> "bytes",
                                        nbytes |-> raw_silence_nbytes(r_model.sample_rate)]),
                     !.stream = "complete"]
       \/ conn' = [conn EXCEPT !.stream = "aborted"]
    /\ r_pc' = "close"
    /\ UNCHANGED <<program, engine_rate, empty_is_missing, loads, writes, calls, computed, r_model, voice_states,
                   r_req, r_pulled, nconn>>
    /\ UNCHANGED daemonVars

\* Mutant: handle_client returns without closing the connection.
RawClose_NoClose ==
    /\ program = "raw_server" /\ r_pc = "close"
    /\ r_pc' = "accept"
    /\ UNCHANGED <<program, engine_rate, empty_is_missing, loads, writes, calls, computed, r_model, voice_states,
                   conn, r_req, r_pulled, nconn>>
    /\ UNCHANGED daemonVars

\* handle_client lines 72-73: finally conn.close(); main loops to accept.
RawClose ==
    /\ program = "raw_server" /\ r_pc = "close"
    /\ conn' = [conn EXCEPT !.state = "closed"]
    /\ r_pc' = "accept"
    /\ UNCHANGED <<program, engine_rate, empty_is_missing, loads, writes, calls, computed, r_model, voice_states,
                   r_req, r_pulled, nconn>>
    /\ UNCHANGED daemonVars

RawNext ==
    \/ RawLoad
    \/ RawWarm
    \/ RawAccept
    \/ RawRecv
    \/ RawVoiceState
    \/ RawHeader
    \/ RawPull
    \/ RawSend
    \/ RawSilence
    \/ RawClose

Next == DaemonNext \/ RawNext

\* The two programs under every interleaving of the daemon's request threads.
Spec == Init /\ [][Next]_vars

NextSeq == DaemonNextSeq \/ RawNext

\* The two programs when the daemon's requests do not overlap.
SpecSeq == Init /\ [][NextSeq]_vars

-----------------------------------------------------------------------------
(* Properties *)

\* C1: the engine load operation executes at most once over the process
\* lifetime, under every interleaving of concurrent get_model() callers, and
\* the engine reference is written at most once.  Stated for the runs the
\* claim is about, those in which no load has raised (every load that ran
\* also wrote the reference).
C1_SingleLoad == (loads = writes) => (loads <= 1 /\ writes <= 1)

\* What the claims about streams speak of.
PcmSources == {"pcm_from_chunk", "raw_pcm"}
HeaderSources == {"make_wav_header", "raw_make_wav_header"}

PcmCount(o) == Cardinality({i \in 1..Len(o) : o[i].src \in PcmSources})

IsHeader(b) ==
    /\ b.src \in HeaderSources
    /\ Len(BlockBytes(b)) = 44
    /\ SubSeq(BlockBytes(b), 1, 4) = tag_RIFF
    /\ SubSeq(BlockBytes(b), 9, 12) = tag_WAVE

\* The blocks o of one stream, given the frames p the engine has yielded to
\* it so far: header, then the encodings of p's frames in order, then silence.
OrderedStream(o, p, complete) ==
    /\ \A i \in 1..Len(o) :
         \/ i = 1 /\ IsHeader(o[i])
         \/ /\ i > 1 /\ o[i].src \in PcmSources
            /\ i - 1 <= Len(p)
            /\ BlockBytes(o[i]) = pcm_from_chunk(p[i - 1])
         \/ /\ i > 1 /\ o[i].src = "bytes"
            /\ i = Len(o) /\ i = Len(p) + 2 /\ complete
    /\ complete => (Len(o) = Len(p) + 2 /\ o[Len(o)].src = "bytes")

StreamingThreads == {t \in Threads : req[t].endpoint = "/tts"}

\* C2: in every stream of /tts and of the raw socket the blocks are the
\* header first, then the PCM encoding of each frame in the order the engine
\* yielded them (none dropped, duplicated or reordered), then the trailing
\* silence, with nothing before the header or after the silence.
C2_StreamOrder ==
    /\ \A t \in StreamingThreads :
         OrderedStream(out[t], pulled[t], resp[t].stream = "complete")
    /\ OrderedStream(conn.out, r_pulled, conn.stream = "complete")

\* C2 witness: a /tts stream completed after the engine yielded two
\* different frames.
C2_Witness ==
    \E t \in StreamingThreads :
        /\ resp[t].stream = "complete"
        /\ Len(pulled[t]) = 2 /\ pulled[t][1] # pulled[t][2]
        /\ Len(out[t]) = 4

\* C3: with non-overlapping requests, at most one conditioning computation per
\* voice returns a state, and none is invoked after it: the cached entry is
\* the result of the last invocation made for its voice, in the daemon's cache
\* and in the raw server's.
C3_OncePerVoiceSequential ==
    /\ \A v \in DOMAIN calls : Count(computed, v) <= 1
    /\ \A v \in DOMAIN _voice_states : _voice_states[v].gen = Count(calls, v)
    /\ \A v \in DOMAIN voice_states : voice_states[v].gen = Count(calls, v)

\* C3 witness: the second request, for a voice that only a request can have
\* computed ("marius" is not warmed up), found the voice cached and was
\* answered with a complete response, after one computation for that voice.
C3_Witness ==
    \E t \in Threads :
        /\ nreq = 2 /\ pc[t] = "done" /\ resp[t].stream = "complete"
        /\ req[t].voice = marius /\ ret[t] = "handler"
        /\ Count(calls, marius) = 1 /\ Count(computed, marius) = 1

\* C4 as claimed: for each voice the state is computed at most once per process
\* lifetime, also when requests run get_voice_state concurrently (so that a
\* cache entry, once written, is never replaced).
C4_ComputedOnceConcurrent == \A v \in DOMAIN computed : computed[v] <= 1

\* C4 as amended: a cache entry is never removed and is always a state of its
\* own voice, and a get_voice_state call whose check finds the voice cached
\* returns without any computation and without touching the cache; only calls
\* whose check found the voice absent compute and store (so concurrent first
\* requests may each compute, the later store replacing the entry).
C4_ComputeOnlyOnMiss ==
    [][/\ DOMAIN _voice_states \subseteq DOMAIN _voice_states'
       /\ \A v \in DOMAIN _voice_states' : _voice_states'[v].voice = v
       /\ \A t \in Threads :
            (/\ pc[t] = "gvs_check"
             /\ pc'[t] # "gvs_check"
             /\ req[t].voice \in DOMAIN _voice_states)
            => (/\ pc'[t] = "gvs_return"
                /\ calls' = calls
                /\ _voice_states' = _voice_states)
       /\ \A t \in Threads :
            (pc[t] # "gvs_compute" /\ pc'[t] = "gvs_compute")
            => (ret[t] = "get_voice_state" /\ calls' = calls)
       /\ (program = "daemon" /\ calls' # calls) =>
            (phase = "run_server" \/ \E t \in Threads : pc[t] = "gvs_compute")
       /\ (program = "daemon" /\ _voice_states' # _voice_states) =>
            (\/ phase = "run_server"
             \/ \E t \in Threads : /\ pc[t] = "gvs_store" /\ pc'[t] = "gvs_return"
                                   /\ ret[t] = "get_voice_state")]_vars

\* C4 witness: two concurrent requests for one uncached voice have both
\* computed its state, the second store replacing the first entry.
C4_Witness ==
    \E v \in DOMAIN _voice_states :
        /\ Count(computed, v) = 2
        /\ _voice_states[v].gen = 2
        /\ \A t \in Threads : req[t].voice = v

BlankText(text) == \A i \in 1..Len(text) : text[i] \in Whitespace

EngineUntouched ==
    /\ loads' = loads /\ writes' = writes /\ calls' = calls /\ computed' = computed
    /\ _model' = _model /\ _voice_states' = _voice_states

\* C5: on /tts and /tts/buffered a request whose text is empty or only
\* whitespace is answered with a 4xx error whatever its voice (an invalid
\* voice does not change the answer of the handler: the text is checked
\* first); the step that answers it invokes no engine operation and leaves
\* the engine handle and the cache as they were, and the request starts no
\* stream and does nothing further.
C5_BlankTextRejected ==
    [][\A t \in Threads :
         /\ (pc[t] = "idle" /\ pc'[t] # "idle" /\ BlankText(req'[t].text))
            => /\ pc'[t] = "done"
               /\ resp'[t].status \in 400..499
               /\ resp'[t].stream = "none"
               /\ resp'[t].status = 400 => resp'[t].detail = <<"Text cannot be empty">>
               /\ out'[t] = <<>> /\ pulled'[t] = <<>> /\ model'[t] = None
               /\ EngineUntouched
         /\ (pc[t] = "done" /\ BlankText(req[t].text) /\ pc'[t] # "done")
            => (pc'[t] = "idle" /\ EngineUntouched)]_vars

\* C5 witness: a whitespace-only text with an unknown voice was answered 400
\* for its text.
C5_Witness ==
    \E t \in Threads :
        /\ pc[t] = "done"
        /\ req[t].text = <<" ", "\f">> /\ req[t].voice = nonexistent
        /\ resp[t].status = 400 /\ resp[t].detail = <<"Text cannot be empty">>

\* C6: on /tts and /tts/buffered a request with non-blank text and a voice
\* outside the 8 enumerated voices is answered 400 with a message that lists
\* every valid voice; no stream is started, the step invokes no engine
\* operation and leaves the cache unchanged, and the request does nothing
\* further.
C6_UnknownVoiceRejected ==
    [][\A t \in Threads :
         /\ (/\ pc[t] = "idle" /\ pc'[t] # "idle"
             /\ ~BlankText(req'[t].text)
             /\ ~InList(req'[t].voice, VOICES))
            => /\ pc'[t] = "done"
               /\ resp'[t].status = 400
               /\ resp'[t].stream = "none"
               /\ \A i \in 1..Len(VOICES) : Contains(resp'[t].detail, VOICES[i])
               /\ Len(VOICES) = 8
               /\ out'[t] = <<>> /\ pulled'[t] = <<>> /\ model'[t] = None
               /\ EngineUntouched
         /\ (/\ pc[t] = "done" /\ pc'[t] # "done"
             /\ ~BlankText(req[t].text)
             /\ ~InList(req[t].voice, VOICES))
            => (pc'[t] = "idle" /\ EngineUntouched)]_vars

\* C6 witness: a request with valid text and the voice "nonexistent" was
\* answered 400 on /tts/buffered.
C6_Witness ==
    \E t \in Threads :
        /\ pc[t] = "done"
        /\ req[t].endpoint = "/tts/buffered"
        /\ req[t].text = <<"\\xa0", "h", "i", "\n">> /\ req[t].voice = nonexistent
        /\ resp[t].status = 400
        /\ Contains(resp[t].detail, alba) /\ Contains(resp[t].detail, azelma)

AllZero(s) == \A i \in 1..Len(s) : s[i] = 0

\* The body o of a successful response to frames p at rate sr ends with one
\* block of silence after the last frame.
EndsWithOneSilence(o, p, sr) ==
    LET last == o[Len(o)]
    IN  IF last.src = "wave"
        THEN LET audio == last.audio
                 n == Len(torch_cat(p))
             IN  /\ Len(audio) = n + (sr * 2) \div 10
                 /\ SubSeq(audio, 1, n) = torch_cat(p)
                 /\ AllZero(SubSeq(audio, n + 1, Len(audio)))
        ELSE /\ last.src = "bytes"
             /\ last.nbytes > 0
             /\ Cardinality({i \in 1..Len(o) : o[i].src = "bytes"}) = 1
             /\ PcmCount(o) = Len(p)

\* C7: every successful response ends with exactly one trailing silence block
\* after the last frame, on /tts, on /tts/buffered and on the raw socket.
C7_TrailingSilenceEverywhere ==
    /\ \A t \in Threads :
         (pc[t] = "done" /\ resp[t].status = 200 /\ resp[t].stream = "complete")
         => EndsWithOneSilence(out[t], pulled[t], model[t].sample_rate)
    /\ conn.stream = "complete"
         => EndsWithOneSilence(conn.out, r_pulled, r_model.sample_rate)

\* C8: the streaming transports hand the header to the connection before any
\* frame is pulled from the engine: every step that pulls a frame for a stream
\* finds the header already handed over.
C8_HeaderBeforeFirstPull ==
    [][/\ \A t \in Threads :
            (req'[t].endpoint = "/tts" /\ Len(pulled'[t]) > Len(pulled[t]))
            => (out[t] # <<>> /\ IsHeader(out[t][1]))
       /\ Len(r_pulled') > Len(r_pulled)
            => (conn.out # <<>> /\ IsHeader(conn.out[1]))]_vars

\* C8 witness: on a voice already cached when the request arrived, the header
\* has been handed over and no frame has been pulled yet.
C8_Witness ==
    \E t \in StreamingThreads :
        /\ ret[t] = "handler" /\ Count(computed, req[t].voice) = 1
        /\ Len(out[t]) = 1 /\ IsHeader(out[t][1])
        /\ pulled[t] = <<>> /\ pc[t] = "s_pull"

\* C9: in a streaming session the transport never holds more than one frame
\* that it has pulled and not yet handed to the connection, and it holds none
\* when it asks the engine for the next frame.
C9_OneFrameInFlight ==
    /\ \A t \in StreamingThreads :
         /\ Len(pulled[t]) - PcmCount(out[t]) \in {0, 1}
         /\ pc[t] = "s_pull" => Len(pulled[t]) = PcmCount(out[t])
    /\ Len(r_pulled) - PcmCount(conn.out) \in {0, 1}
    /\ r_pc = "pull" => Len(r_pulled) = PcmCount(conn.out)

\* C9 witness: the raw server is about to pull a second frame, the first one
\* having been sent.
C9_Witness ==
    /\ r_pc = "pull" /\ Len(r_pulled) = 1 /\ PcmCount(conn.out) = 1
    /\ conn.out[2].chunk = r_pulled[1]

\* A 32-bit little-endian field holding n.
LE4(n) == <<n % 256, (n \div 256) % 256, (n \div 65536) % 256, n \div 16777216>>

SizesDeclared(b) ==
    LET bytes == BlockBytes(b)
        payload == Len(bytes) - 44
    IN  IF b.src \in HeaderSources
        THEN /\ SubSeq(bytes, 41, 44) = <<255, 255, 255, 127>>   \* 0x7FFFFFFF
             /\ SubSeq(bytes, 5, 8) = <<35, 0, 0, 128>>          \* 0x7FFFFFFF + 36
        ELSE IF b.src = "wave"
        THEN /\ payload = 2 * Len(b.audio)
             /\ SubSeq(bytes, 41, 44) = LE4(payload)
             /\ SubSeq(bytes, 5, 8) = LE4(payload + 36)
        ELSE TRUE

\* C10: the data-size field of every streaming header is 0x7FFFFFFF with
\* total size 0x7FFFFFFF + 36, and the data-size field of every buffered body
\* is the number of PCM bytes that follow its header, with total size that
\* number + 36.
C10_DeclaredSizes ==
    /\ \A t \in Threads : \A i \in 1..Len(out[t]) : SizesDeclared(out[t][i])
    /\ \A i \in 1..Len(conn.out) : SizesDeclared(conn.out[i])
    /\ \A t \in Threads :
         (pc[t] = "done" /\ req[t].endpoint = "/tts/buffered" /\ resp[t].status = 200)
         => (Len(out[t]) = 1 /\ out[t][1].src = "wave"
             /\ out[t][1].audio = torch_cat(pulled[t]))

\* C10 witness: a buffered response built from two frames.
C10_Witness ==
    \E t \in Threads :
        /\ pc[t] = "done" /\ req[t].endpoint = "/tts/buffered"
        /\ resp[t].status = 200 /\ Len(pulled[t]) = 2
        /\ Len(BlockBytes(out[t][1])) = 44 + 8

BufferedThreads == {t \in Threads : req[t].endpoint = "/tts/buffered"}

\* The PCM encodings of the frames p, one after the other.
RECURSIVE PcmOfFrames(_)
PcmOfFrames(p) ==
    IF p = <<>> THEN <<>> ELSE pcm_from_chunk(Head(p)) \o PcmOfFrames(Tail(p))

\* C11: on /tts/buffered nothing is emitted while the engine's frame sequence
\* is being drained; when the drained collection is empty the answer is 500
\* with no audio body; otherwise the answer is one body whose payload is the
\* encoding of every drained frame in production order.
C11_BufferedDrainsFirst ==
    \A t \in BufferedThreads :
        /\ pc[t] = "b_drain" => (out[t] = <<>> /\ resp[t] = NoResp)
        /\ out[t] # <<>> => (pc[t] = "done" /\ resp[t].status = 200 /\ pulled[t] # <<>>)
        /\ (pc[t] = "done" /\ resp[t].status = 200)
             => /\ Len(out[t]) = 1 /\ pulled[t] # <<>>
                /\ SubSeq(BlockBytes(out[t][1]), 45, Len(BlockBytes(out[t][1])))
                     = PcmOfFrames(pulled[t])
        /\ (pc[t] = "done" /\ model[t] # None /\ pulled[t] = <<>>)
             => (resp[t].status = 500 /\ out[t] = <<>>)

\* C11 witness: a buffered request whose engine yielded no frame was answered
\* 500 "No audio generated" with no body.
C11_Witness ==
    \E t \in BufferedThreads :
        /\ pc[t] = "done" /\ pulled[t] = <<>> /\ out[t] = <<>>
        /\ resp[t].status = 500 /\ resp[t].detail = <<"No audio generated">>

\* The positions of the raw server's thread inside handle_client.
HandlingPositions == {"recv", "voice", "header", "pull", "send", "silence", "close"}

\* C12: the raw server handles one connection at a time: an open connection
\* exists only while the single thread is inside handle_client, and a
\* connection is accepted only from the accept position, when the connection
\* accepted before it (if any) has been handled to its end and closed.
C12_SerialAccept ==
    [][/\ (conn.state = "open") = (r_pc \in HandlingPositions)
       /\ (conn'.state = "open") = (r_pc' \in HandlingPositions)
       /\ nconn' # nconn
            => /\ nconn' = nconn + 1
               /\ r_pc = "accept" /\ r_pc' = "recv"
               /\ conn.state = (IF nconn = 0 THEN "none" ELSE "closed")
               /\ conn'.state = "open" /\ conn'.out = <<>>]_vars

\* C12 witness: the second connection is being handled, accepted after the
\* first one was closed.
C12_Witness == nconn = 2 /\ conn.state = "open" /\ r_pc = "pull"

HelloWorld == <<"H", "e", "l", "l", "o", " ", "w", "o", "r", "l", "d">>

\* The request read from the connection has been parsed.
RawParsed == conn.state = "open" /\ r_pc \in HandlingPositions \ {"recv"} /\ r_req # NoRawReq

\* C13: when the data read by the raw server holds no voice line (an empty or
\* whitespace-only read) the voice used is "alba", and when it holds no text
\* line the text used is "Hello world".
C13_RawDefaults ==
    RawParsed =>
        /\ strip(conn.data) = <<>> => r_req.voice = alba
        /\ ~InList("\n", strip(conn.data)) => r_req.text = HelloWorld

\* The raw server's thread runs.  The engine's calls return or raise and the
\* close is reached once handle_client's body is left; recv and sendall have
\* no timeout and may wait for the client without end, so no progress is
\* assumed for them (nor for accept).  The daemon's requests do not overlap.
SpecRawFair ==
    /\ Init /\ [][NextSeq]_vars
    /\ WF_vars(RawLoad) /\ WF_vars(RawWarm) /\ WF_vars(RawVoiceState)
    /\ WF_vars(RawPull) /\ WF_vars(RawClose)

\* C14 as claimed, its last part: every accepted connection is eventually
\* closed.
C14_EveryConnectionClosed == (conn.state = "open") ~> (conn.state = "closed")

\* C14 as amended: in the raw server, a step of handle_client that raises
\* writes nothing and leads to the close; after it no byte is written to that
\* connection; handle_client is left only through the close, with the
\* connection closed and the thread back at accept, where the next connection
\* can be accepted; and once handling has ended, by success or by exception,
\* the connection is eventually closed.
C14_ExceptionClosesConnection ==
    /\ [][/\ (conn.stream # "aborted" /\ conn'.stream = "aborted")
               => (r_pc \in HandlingPositions /\ r_pc' = "close"
                   /\ conn'.out = conn.out /\ conn'.state = "open")
          /\ (conn.stream = "aborted" /\ nconn' = nconn)
               => (conn'.out = conn.out /\ conn'.stream = "aborted"
                   /\ r_pulled' = r_pulled)
          /\ (r_pc \in HandlingPositions /\ r_pc' \notin HandlingPositions)
               => (r_pc = "close" /\ r_pc' = "accept" /\ conn'.state = "closed")
          /\ (conn.state = "closed" /\ nconn' = nconn) => conn' = conn
          /\ (conn'.state = "closed" /\ nconn < MaxConns) => r_pc' = "accept"]_vars
    /\ ((r_pc = "close") ~> (conn.state = "closed" /\ r_pc = "accept"))

\* C14 witness: a connection whose frame write raised after the header and one
\* frame had been sent is closed, and the thread is back at accept.
C14_Witness ==
    /\ conn.state = "closed" /\ conn.stream = "aborted" /\ r_pc = "accept"
    /\ Len(conn.out) = 2 /\ Len(r_pulled) = 2

\* The load_model() calls that have raised: those entered that neither wrote
\* the engine reference nor are still running.
FailedLoads == loads - writes - Cardinality({t \in Threads : pc[t] = "gm_store"})

\* C15: once a load attempt has raised, no later step starts another load;
\* and once a load has succeeded, no later step loads, and the engine
\* reference stays the same.
C15_LoadNeverRetried ==
    [][/\ FailedLoads > 0 => loads' = loads
       /\ _model # None => (loads' = loads /\ _model' = _model)
       /\ r_model # None => (loads' = loads /\ r_model' = r_model)]_vars

StreamPositions == {"s_header", "s_pull", "s_yield", "s_silence"}

\* C16: a streaming session that ends on a failed write (the step leaves the
\* streaming positions without handing anything over) is marked aborted; from
\* then on no frame is pulled for it, nothing more is handed over, and its
\* connection is released: the /tts request is over, and the raw server goes
\* through the close to accept with the connection closed.
C16_DisconnectStopsPulling ==
    [][/\ \A t \in Threads :
            /\ (pc[t] \in StreamPositions /\ pc'[t] \notin StreamPositions
                /\ out'[t] = out[t])
                 => (pc'[t] = "done" /\ resp'[t].stream = "aborted"
                     /\ pulled'[t] = pulled[t])
            /\ resp[t].stream = "aborted"
                 => /\ pc[t] = "done"
                    /\ pulled'[t] \in {pulled[t], <<>>}
                    /\ out'[t] \in {out[t], <<>>}
       /\ (r_pc \in {"header", "send", "silence"} /\ r_pc' # r_pc /\ conn'.out = conn.out)
            => (r_pc' = "close" /\ conn'.stream = "aborted" /\ r_pulled' = r_pulled)
       /\ (conn.stream = "aborted" /\ nconn' = nconn)
            => /\ r_pulled' = r_pulled /\ conn'.out = conn.out
               /\ r_pc \in {"close", "accept"}
               /\ r_pc = "close" => (r_pc' = "accept" /\ conn'.state = "closed")]_vars

\* C16 witness: the client of a /tts stream went away when the first frame had
\* been pulled and not yet written; the request is over with one frame pulled.
C16_Witness ==
    \E t \in StreamingThreads :
        /\ pc[t] = "done" /\ resp[t].stream = "aborted"
        /\ Len(pulled[t]) = 1 /\ Len(out[t]) = 1

\* round(sr * 0.2): the nearest integer to sr / 5 (never halfway between two).
RoundFifth(sr) == (2 * sr + 5) \div 10

\* The last block of a complete stream o is nbytes zero bytes.
SilenceIs(o, nbytes) ==
    /\ o # <<>> /\ o[Len(o)].src = "bytes"
    /\ BlockBytes(o[Len(o)]) = [i \in 1..nbytes |-> 0]

\* C17 as claimed: the trailing silence of every complete stream, at any
\* sample rate, is round(sampleRate * 0.2) * 2 zero bytes.  Both transports
\* compute int(sample_rate * 0.2), which truncates: the two agree at 24000 Hz
\* (9600 bytes) and differ at 44099 Hz (17638 bytes sent, 17640 claimed).
C17_SilenceRounded ==
    /\ \A t \in StreamingThreads :
         resp[t].stream = "complete"
         => SilenceIs(out[t], RoundFifth(model[t].sample_rate) * 2)
    /\ conn.stream = "complete"
         => SilenceIs(conn.out, RoundFifth(r_model.sample_rate) * 2)

\* The byte blocks of the blocks o handed to a connection.
BytesOf(o) == [i \in 1..Len(o) |-> BlockBytes(o[i])]

\* What generate_streaming_wav yields for the frames p at rate sr, run to its end.
RECURSIVE HttpFrames(_)
HttpFrames(p) ==
    IF p = <<>> THEN <<>> ELSE <<pcm_from_chunk(Head(p))>> \o HttpFrames(Tail(p))

HttpStream(sr, p) ==
    <<make_wav_header(sr, 1, 16)>> \o HttpFrames(p)
    \o <<[i \in 1..silence_nbytes(sr) |-> 0]>>

\* What handle_client writes for the frames p at rate sr, run to its end.
RECURSIVE RawFrames(_)
RawFrames(p) ==
    IF p = <<>> THEN <<>> ELSE <<raw_pcm(Head(p))>> \o RawFrames(Tail(p))

RawStream(sr, p) ==
    <<raw_make_wav_header(sr)>> \o RawFrames(p)
    \o <<[i \in 1..raw_silence_nbytes(sr) |-> 0]>>

\* C18: the two streaming transports write the same bytes for the same sample
\* rate and frame sequence: every complete /tts stream is, block for block,
\* what handle_client writes for its rate and frames, every complete raw
\* stream is what generate_streaming_wav yields for its rate and frames, and
\* the two headers are equal at every sample rate.
C18_TransportsAgree ==
    /\ \A sr \in SampleRates : raw_make_wav_header(sr) = make_wav_header(sr, 1, 16)
    /\ \A t \in StreamingThreads :
         /\ out[t] # <<>> => BlockBytes(out[t][1]) = raw_make_wav_header(model[t].sample_rate)
         /\ resp[t].stream = "complete"
              => BytesOf(out[t]) = RawStream(model[t].sample_rate, pulled[t])
    /\ conn.out # <<>> => BlockBytes(conn.out[1]) = make_wav_header(r_model.sample_rate, 1, 16)
    /\ conn.stream = "complete"
         => BytesOf(conn.out) = HttpStream(r_model.sample_rate, r_pulled)

\* C18 witness: the raw server completed a stream of two different frames at
\* 44099 Hz.
C18_Witness ==
    /\ conn.stream = "complete" /\ r_model.sample_rate = 44099
    /\ Len(r_pulled) = 2 /\ r_pulled[1] # r_pulled[2]
    /\ Len(conn.out) = 4

\* C19: in every reachable state of the daemon, under every interleaving of
\* /tts and /tts/buffered requests and after the warm-up, every key of
\* _voice_states is one of the 8 enumerated voices, and so is every voice a
\* running get_voice_state call was given.
C19_CacheKeysAreVoices ==
    /\ Len(VOICES) = 8
    /\ \A v \in DOMAIN _voice_states : InList(v, VOICES)
    /\ \A t \in Threads :
         pc[t] \in {"gvs_check", "gvs_compute", "gvs_store", "gvs_return"}
         => InList(req[t].voice, VOICES)

\* C19 witness: while one request with an unknown voice has been rejected,
\* another has stored the state of "marius"; the cache holds that key alone.
C19_Witness ==
    \E t, u \in Threads :
        /\ pc[t] = "done" /\ req[t].voice = nonexistent /\ resp[t].status = 400
        /\ pc[u] = "gvs_return" /\ req[u].voice = marius
        /\ DOMAIN _voice_states = {marius}

\* The raw server's cache is not bounded that way: this state, in which it
\* holds a key outside the enumerated voices, is reachable.
C19_RawKeyOutsideVoices == \E v \in DOMAIN voice_states : ~InList(v, VOICES)

\* C20: a step in which a conditioning computation raises leaves the cache
\* as it was, with no entry for that voice; a get_voice_state call for a voice
\* that is still absent goes on to compute again; in the raw server the
\* failing step finds and leaves the connection with zero bytes written and
\* leads to the close, which writes nothing.
C20_FailedConditioningLeavesCache ==
    [][/\ \A t \in Threads :
            (pc[t] = "gvs_store" /\ pc'[t] = "done")
            => /\ _voice_states' = _voice_states
               /\ req[t].voice \notin DOMAIN _voice_states'
               /\ computed' = computed
       /\ (phase = "run_server" /\ phase' = "exited")
            => (_voice_states' = _voice_states /\ computed' = computed)
       /\ (r_pc = "voice" /\ r_pc' = "close")
            => /\ voice_states' = voice_states
               /\ r_req.voice \notin DOMAIN voice_states'
               /\ calls' # calls /\ computed' = computed
               /\ conn.out = <<>> /\ conn'.out = <<>> /\ conn'.state = "open"
       /\ \A t \in Threads :
            (pc[t] = "gvs_check" /\ pc'[t] # "gvs_check"
             /\ req[t].voice \notin DOMAIN _voice_states)
            => (pc'[t] = "gm_check" /\ ret'[t] = "get_voice_state")
       /\ (r_pc = "voice" /\ r_pc' = "header")
            => r_req.voice \in DOMAIN voice_states'
       /\ (r_pc = "close" /\ r_pc' # "close")
            => (conn'.out = conn.out /\ conn'.state = "closed")]_vars

\* C20 witness: the computation for "marius" raised in a first request and
\* was attempted again, with success, by the second one.
C20_Witness ==
    /\ Count(calls, marius) = 2 /\ Count(computed, marius) = 1
    /\ marius \in DOMAIN _voice_states /\ _voice_states[marius].gen = 2
    /\ nreq = 2

====
